---- MODULE Spec2Model ----
(***************************************************************************)
(* State-machine model of the buffer / synchronisation-guard core of       *)
(* oidn-rs: src/src/buffer.rs (Buffer, Device entry points) and            *)
(* src/src/must_sync.rs (SyncLock, MustSync).                              *)
(*                                                                         *)
(* One host thread drives the API.  A MustSync mutably borrows the Buffer  *)
(* it was made for, so while the guard value is alive the borrow checker   *)
(* rejects every other use of that Buffer; after mem::forget the borrow    *)
(* has ended but the write lock is still held.  Handlers whose internal    *)
(* order matters (the destructors and synchronise_now) are split into      *)
(* their statements; pc holds the position and nothing else runs until    *)
(* the handler has finished.                                               *)
(***************************************************************************)
EXTENDS Integers, Sequences, FiniteSets, TLC

\* ------------------------------------------------------------------ bounds
MaxSize    == 1     \* largest element count of a Buffer
MaxVal     == 1     \* element values are 0..MaxVal
MaxRetain  == 4     \* cap on the retain counts (see CanRetain)

Devices  == {"d1", "d2"}
Buffers  == {"b1", "b2"}
NoDevice == "no_device"
NoBuffer == "no_buffer"
SizeOfF32 == 4

Values     == 0..MaxVal
\* the vectors of n elements used as inputs: one per value v, counting up
\* from v (the code copies whole regions, never single elements)
Data(n)    == {[i \in 1..n |-> (i - 1 + v) % (MaxVal + 1)] : v \in Values}
Contents   == UNION {Data(n) : n \in 1..MaxSize}        \* create_buffer inputs
\* caller slices: every length from 0 to one more than the largest Buffer
Slices     == Contents \cup {<<>>, [i \in 1..(MaxSize + 1) |-> 0]}
SliceLens  == 0..(MaxSize + 1)
RawBytes   == SizeOfF32..(SizeOfF32 * MaxSize + 1)      \* byte sizes of imported buffers

VARIABLES
    wrapper,    \* wrapper[d]: the Device value (convenience wrapper) is alive
    refs,       \* refs[d]: retain count of the native device; 0 = destroyed
    queue,      \* queue[d]: async operations issued on d and not yet synchronised
    live,       \* live[b]: a Buffer value occupies slot b
    size,       \* Buffer.size
    device,     \* Buffer.device
    mem,        \* contents of the device memory behind Buffer.buf
    sync_lock,  \* Buffer.sync_lock: [writer, poisoned] of the RwLock<()>
    released,   \* number of oidnReleaseBuffer calls made on Buffer.buf
    guards,     \* guards[b]: the MustSync values made on b's lock, not yet finalised
    pc,         \* position inside a multi-statement handler
    panicking,  \* the thread is unwinding from a panic
    hung,       \* the thread is blocked for ever in RwLock::write
    last        \* outcome of the last completed call

vars == <<wrapper, refs, queue, live, size, device, mem, sync_lock, released,
          guards, pc, panicking, hung, last>>

\* --------------------------------------------------------------- SyncLock
\* SyncLock::default()
SyncLock_default == [writer |-> FALSE, poisoned |-> FALSE]

clear_poison_skipped(l) == l

\* RwLock::clear_poison
clear_poison(l) == [l EXCEPT !.poisoned = FALSE]

try_read_blind(l) == IF l.poisoned THEN "Poisoned" ELSE "Ok"

\* RwLock::try_read: never waits
try_read(l) ==
    IF l.writer THEN "WouldBlock"
    ELSE IF l.poisoned THEN "Poisoned"
    ELSE "Ok"

\* RwLock::write: waits while the lock is held
lock_write(l) ==
    IF l.writer THEN "Block"
    ELSE IF l.poisoned THEN "Poisoned"
    ELSE "Ok"

check_valid_ignoring_error(l) == TRUE

\* SyncLock::check_valid returns (TRUE) or panics (FALSE); the read guard it
\* takes is dropped before it returns.
check_valid(l) == try_read(clear_poison(l)) = "Ok"

check_valid_read_kept(l) == [clear_poison(l) EXCEPT !.writer = TRUE]

\* the lock after a check_valid that returned: the poison is cleared and
\* the read guard has been dropped again (let _ = ..)
check_valid_passed(l) == clear_poison(l)

\* ---------------------------------------------------------- device calls
oidnRetainDevice(r, d) == [r EXCEPT ![d] = @ + 1]

WriteOp(b, data) == [k |-> "write", b |-> b, data |-> data]
ReadOp(b)        == [k |-> "read",  b |-> b, data |-> <<>>]

oidnWriteBufferAsync_waits(q, b, data) == [q EXCEPT ![device[b]] = <<>>]

\* oidnWriteBufferAsync / oidnReadBufferAsync act on the device that owns
\* the buffer handle, whichever Device value the call went through.
oidnWriteBufferAsync(q, b, data) == [q EXCEPT ![device[b]] = Append(@, WriteOp(b, data))]
oidnReadBufferAsync(q, b)        == [q EXCEPT ![device[b]] = Append(@, ReadOp(b))]

\* The destination of an async read is the Vec owned by the read guard.
FillFirst(gs, m) ==
    IF \E i \in 1..Len(gs) : gs[i].kind = "read" /\ ~gs[i].filled
    THEN LET i == CHOOSE j \in 1..Len(gs) : gs[j].kind = "read" /\ ~gs[j].filled
         IN  [gs EXCEPT ![i] = [@ EXCEPT !.filled = TRUE, !.vec = m]]
    ELSE gs

RECURSIVE Complete(_, _)
\* run the queued operations ops in issue order on st = [mem, guards]
Complete(ops, st) ==
    IF ops = <<>> THEN st
    ELSE LET o == Head(ops)
             nx == IF o.k = "write"
                   THEN [st EXCEPT !.mem[o.b] = o.data]
                   ELSE [st EXCEPT !.guards[o.b] = FillFirst(@, st.mem[o.b])]
         IN  Complete(Tail(ops), nx)

\* oidnSyncDevice(d): blocks until every operation queued on d has run;
\* the result is the [mem, guards, queue] it leaves behind
oidnSyncDevice(d) ==
    LET st == Complete(queue[d], [mem |-> mem, guards |-> guards])
    IN  [mem |-> st.mem, guards |-> st.guards, queue |-> [queue EXCEPT ![d] = <<>>]]

NoSync == [mem |-> mem, guards |-> guards, queue |-> queue]

Pending(b) == \E d \in Devices : \E i \in 1..Len(queue[d]) : queue[d][i].b = b

\* ----------------------------------------------------------------- guards
\* data: the caller's slice a write guard borrows for its lifetime ('s)
Guard(d, kind, data) ==
    [dev |-> d, kind |-> kind, func |-> "Some", runs |-> 0,
     leaked |-> FALSE, filled |-> FALSE, vec |-> <<>>, data |-> data]

\* a forgotten guard is never looked at again; only that it holds the lock matters
Leaked == [Guard(NoDevice, "unit", <<>>) EXCEPT !.leaked = TRUE]

Unfinalized(b) == Len(guards[b]) > 0
Borrowed(b)    == \E i \in 1..Len(guards[b]) : ~guards[b][i].leaked
Remove(s, i)   == SubSeq(s, 1, i - 1) \o SubSeq(s, i + 1, Len(s))

\* refs0: retain count of the device concerned when the handler was entered
Idle == [at |-> "idle", b |-> NoBuffer, i |-> 0, path |-> "none",
         refs0 |-> 0, val |-> <<>>]

Outcome(op, b, res, call, g, val) ==
    [op |-> op, b |-> b, res |-> res, call |-> call, guard |-> g,
     val |-> val, runs |-> 0, data |-> <<>>]

RECURSIVE Sum(_, _)
Sum(f, S) == IF S = {} THEN 0 ELSE LET x == CHOOSE y \in S : TRUE IN f[x] + Sum(f, S \ {x})

\* the retain counts only ever grow in long runs; runs stop retaining at the
\* cap, which also caps the queues (every async operation retains).  The
\* reference a live Buffer holds on its device is not counted.
CanRetain ==
    Sum(refs, Devices) - Cardinality({b \in Buffers : live[b]}) < MaxRetain

Ready == pc = Idle /\ ~hung
Call  == Ready /\ ~panicking

Init ==
    /\ wrapper   = [d \in Devices |-> TRUE]
    /\ refs      = [d \in Devices |-> 1]
    /\ queue     = [d \in Devices |-> <<>>]
    /\ live      = [b \in Buffers |-> FALSE]
    /\ size      = [b \in Buffers |-> 0]
    /\ device    = [b \in Buffers |-> NoDevice]
    /\ mem       = [b \in Buffers |-> <<>>]
    /\ sync_lock = [b \in Buffers |-> SyncLock_default]
    /\ released  = [b \in Buffers |-> 0]
    /\ guards    = [b \in Buffers |-> <<>>]
    /\ pc        = Idle
    /\ panicking = FALSE
    /\ hung      = FALSE
    /\ last      = Outcome("Device::new", NoBuffer, "ok", "none", FALSE, <<>>)

\* ----------------------------------------------------------------- Device
\* Drop for Device: the wrapper gives up its own reference; the native
\* handle is destroyed when the count reaches zero.
Device_drop(d) ==
    /\ Ready
    /\ wrapper[d]
    /\ wrapper' = [wrapper EXCEPT ![d] = FALSE]
    /\ refs' = [refs EXCEPT ![d] = @ - 1]
    /\ last' = Outcome("Device::drop", NoBuffer, "ok", "none", FALSE, <<>>)
    /\ UNCHANGED <<queue, live, size, device, mem, sync_lock, released,
                   guards, pc, panicking, hung>>

create_buffer_no_retain(d) == refs

\* buffer.rs 33-35: the Buffer's own reference to the device
create_buffer_retain(d) == oidnRetainDevice(refs, d)

NewBuffer(d, b, n, m) ==
    /\ live'      = [live EXCEPT ![b] = TRUE]
    /\ size'      = [size EXCEPT ![b] = n]
    /\ device'    = [device EXCEPT ![b] = d]
    /\ mem'       = [mem EXCEPT ![b] = m]
    /\ sync_lock' = [sync_lock EXCEPT ![b] = SyncLock_default]
    /\ released'  = [released EXCEPT ![b] = 0]

\* Device::create_buffer; null: oidnNewBuffer returned a null handle
create_buffer(d, b, contents, null) ==
    /\ Call
    /\ wrapper[d]
    /\ ~live[b]
    /\ ~null => CanRetain
    /\ IF null
       THEN /\ last' = Outcome("create_buffer", b, "none", "none", FALSE, <<>>)
            /\ UNCHANGED <<refs, live, size, device, mem, sync_lock, released>>
       ELSE /\ NewBuffer(d, b, Len(contents), contents)
            /\ refs' = create_buffer_retain(d)
            /\ last' = Outcome("create_buffer", b, "ok", "oidnWriteBuffer", FALSE, <<>>)
    /\ UNCHANGED <<wrapper, queue, guards, pc, panicking, hung>>

\* Device::create_buffer_from_raw: adopts a handle of bytes bytes whose
\* memory holds whatever the caller left there (m)
create_buffer_from_raw(d, b, bytes, m) ==
    /\ Call
    /\ wrapper[d]
    /\ ~live[b]
    /\ CanRetain
    /\ Len(m) = bytes \div SizeOfF32
    /\ NewBuffer(d, b, bytes \div SizeOfF32, m)
    /\ refs' = oidnRetainDevice(refs, d)
    /\ last' = Outcome("create_buffer_from_raw", b, "ok", "none", FALSE, <<>>)
    /\ UNCHANGED <<wrapper, queue, guards, pc, panicking, hung>>

\* ------------------------------------------------------- guard construction
\* MustSync::new (called must_sync in buffer.rs): retain, check_valid,
\* clear_poison, write().unwrap().  Sets refs, sync_lock, guards, hung,
\* panicking and last.
must_sync(op, d, b, kind, call, data) ==
    /\ refs' = oidnRetainDevice(refs, d)
    /\ IF ~check_valid(sync_lock[b])
       THEN /\ sync_lock' = [sync_lock EXCEPT ![b] = clear_poison(@)]
            /\ panicking' = TRUE
            /\ last' = Outcome(op, b, "panic", call, FALSE, <<>>)
            /\ UNCHANGED <<guards, hung>>
       ELSE LET l == clear_poison(sync_lock[b]) IN
            IF lock_write(l) = "Ok"
            THEN /\ sync_lock' = [sync_lock EXCEPT ![b] = [l EXCEPT !.writer = TRUE]]
                 /\ guards' = [guards EXCEPT ![b] = Append(@, Guard(d, kind, data))]
                 /\ last' = Outcome(op, b, "ok", call, TRUE, <<>>)
                 /\ UNCHANGED <<panicking, hung>>
            ELSE /\ sync_lock' = [sync_lock EXCEPT ![b] = l]
                 /\ hung' = (lock_write(l) = "Block")
                 /\ panicking' = (lock_write(l) = "Poisoned")
                 /\ last' = Outcome(op, b, IF lock_write(l) = "Block" THEN "hang" ELSE "panic",
                                    call, FALSE, <<>>)
                 /\ UNCHANGED guards

\* a caller may use Buffer b: it exists and no live guard borrows it
Usable(b) == live[b] /\ ~Borrowed(b)

\* MustSync::new called directly on the lock of b (Buffer::raw_sync_lock)
MustSync_new(d, b) ==
    /\ Call
    /\ wrapper[d]
    /\ Usable(b)
    /\ CanRetain
    /\ must_sync("MustSync::new", d, b, "unit", "none", <<>>)
    /\ UNCHANGED <<wrapper, queue, live, size, device, mem, released, pc>>

Panic(op, b) ==
    /\ sync_lock' = [sync_lock EXCEPT ![b] = clear_poison(@)]
    /\ panicking' = TRUE
    /\ last' = Outcome(op, b, "panic", "none", FALSE, <<>>)

Mismatch_fatal(op, b) ==
    /\ sync_lock' = [sync_lock EXCEPT ![b] = clear_poison(@)]
    /\ last' = Outcome(op, b, "panic", "none", FALSE, <<>>)

\* buffer.rs 79-80, 128-129, 142-143: the sizes differ, the result is None
Mismatch(op, b) ==
    /\ sync_lock' = [sync_lock EXCEPT ![b] = check_valid_passed(@)]
    /\ last' = Outcome(op, b, "none", "none", FALSE, <<>>)

\* Device::write_buffer_async
write_buffer_async(d, b, contents) ==
    /\ Call
    /\ wrapper[d]
    /\ Usable(b)
    /\ (check_valid(sync_lock[b]) /\ size[b] = Len(contents)) => CanRetain
    /\ IF ~check_valid(sync_lock[b])
       THEN /\ Panic("write_buffer_async", b)
            /\ UNCHANGED <<refs, queue, guards, hung>>
       ELSE IF size[b] # Len(contents)
       THEN /\ Mismatch("write_buffer_async", b)
            /\ UNCHANGED <<refs, queue, guards, hung, panicking>>
       ELSE /\ queue' = oidnWriteBufferAsync(queue, b, contents)
            /\ must_sync("write_buffer_async", d, b, "unit", "oidnWriteBufferAsync", contents)
    /\ UNCHANGED <<wrapper, live, size, device, mem, released, pc>>

\* Device::read_buffer_async
read_buffer_async(d, b) ==
    /\ Call
    /\ wrapper[d]
    /\ Usable(b)
    /\ check_valid(sync_lock[b]) => CanRetain
    /\ IF ~check_valid(sync_lock[b])
       THEN /\ Panic("read_buffer_async", b)
            /\ UNCHANGED <<refs, queue, guards, hung>>
       ELSE /\ queue' = oidnReadBufferAsync(queue, b)
            /\ must_sync("read_buffer_async", d, b, "read", "oidnReadBufferAsync", <<>>)
    /\ UNCHANGED <<wrapper, live, size, device, mem, released, pc>>

\* ------------------------------------------------- synchronous operations
write_size_unchecked(b, contents) == TRUE

\* buffer.rs 128: the slice must have the Buffer's length
write_size_ok(b, contents) == size[b] = Len(contents)

\* Buffer::write
Buffer_write(b, contents) ==
    /\ Call
    /\ Usable(b)
    /\ IF ~check_valid(sync_lock[b])
       THEN Panic("write", b) /\ UNCHANGED mem
       ELSE IF ~write_size_ok(b, contents)
       THEN Mismatch("write", b) /\ UNCHANGED <<mem, panicking>>
       ELSE /\ mem' = [mem EXCEPT ![b] = contents]
            /\ sync_lock' = [sync_lock EXCEPT ![b] = check_valid_passed(@)]
            /\ last' = [Outcome("write", b, "ok", "oidnWriteBuffer", FALSE, <<>>)
                           EXCEPT !.data = contents]
            /\ UNCHANGED panicking
    /\ UNCHANGED <<wrapper, refs, queue, live, size, device, released, guards, pc, hung>>

\* Buffer::read_to_slice into a caller slice of n elements
Buffer_read_to_slice(b, n) ==
    /\ Call
    /\ Usable(b)
    /\ IF ~check_valid(sync_lock[b])
       THEN Panic("read_to_slice", b)
       ELSE IF size[b] # n
       THEN Mismatch("read_to_slice", b) /\ UNCHANGED panicking
       ELSE /\ last' = Outcome("read_to_slice", b, "ok", "oidnReadBuffer", FALSE, mem[b])
            /\ sync_lock' = [sync_lock EXCEPT ![b] = check_valid_passed(@)]
            /\ UNCHANGED panicking
    /\ UNCHANGED <<wrapper, refs, queue, live, size, device, mem, released, guards, pc, hung>>

read_unchecked(b) == TRUE

\* buffer.rs 155: Buffer::read checks the lock first
read_valid(b) == check_valid(sync_lock[b])

\* Buffer::read
Buffer_read(b) ==
    /\ Call
    /\ Usable(b)
    /\ IF ~read_valid(b)
       THEN Panic("read", b)
       ELSE /\ last' = Outcome("read", b, "ok", "oidnReadBuffer", FALSE, mem[b])
            /\ sync_lock' = [sync_lock EXCEPT ![b] = check_valid_passed(@)]
            /\ UNCHANGED panicking
    /\ UNCHANGED <<wrapper, refs, queue, live, size, device, mem, released, guards, pc, hung>>

\* ---------------------------------------------------- guard finalisation
\* mem::forget(guard): the value is gone, its destructor never runs, the
\* borrow of the Buffer ends, the write lock stays held
Leak(b, i) ==
    /\ Call
    /\ i \in 1..Len(guards[b])
    /\ ~guards[b][i].leaked
    /\ guards' = [guards EXCEPT ![b][i] = Leaked]
    /\ last' = Outcome("mem::forget", b, "ok", "none", FALSE, <<>>)
    /\ UNCHANGED <<wrapper, refs, queue, live, size, device, mem, sync_lock,
                   released, pc, panicking, hung>>

drop_without_sync(g) == NoSync

\* must_sync.rs 48-50: the body of Drop::drop
drop_body(g) == oidnSyncDevice(g.dev)

DropBody(b, i, path, refs0, val) ==
    LET st == drop_body(guards[b][i]) IN
    /\ mem' = st.mem
    /\ guards' = st.guards
    /\ queue' = st.queue
    /\ pc' = [at |-> "drop_fields", b |-> b, i |-> i, path |-> path,
              refs0 |-> refs0, val |-> val]
    /\ UNCHANGED <<wrapper, refs, live, size, device, sync_lock, released,
                   panicking, hung, last>>

\* the guard goes out of scope: Drop::drop runs (also while unwinding)
MustSync_drop(b, i) ==
    /\ Ready
    /\ i \in 1..Len(guards[b])
    /\ ~guards[b][i].leaked
    /\ DropBody(b, i, "drop", refs[guards[b][i].dev], <<>>)

unlock_forgotten(l) == l

\* Drop for RwLockWriteGuard (the _lock field): the lock is released, and
\* poisoned when the thread is unwinding
unlock(l) == [writer |-> FALSE, poisoned |-> l.poisoned \/ panicking]

\* after Drop::drop the fields are dropped: the RwLockWriteGuard unlocks
\* (and poisons the lock when the thread is unwinding), func is dropped
\* unexecuted if still there, raw_device is a plain handle
MustSync_drop_fields ==
    /\ pc.at = "drop_fields"
    /\ LET b == pc.b
           g == guards[b][pc.i]
       IN  /\ sync_lock' = [sync_lock EXCEPT ![b] = unlock(@)]
           /\ guards' = [guards EXCEPT ![b] = Remove(@, pc.i)]
           /\ last' = [op |-> pc.path, b |-> b, res |-> "ok", call |-> "none",
                       guard |-> FALSE, val |-> pc.val, runs |-> g.runs,
                       data |-> g.data]
    /\ pc' = Idle
    /\ UNCHANGED <<wrapper, refs, queue, live, size, device, mem, released,
                   panicking, hung>>

\* MustSync::synchronise_now, first statement: oidnSyncDevice
synchronise_now(b, i) ==
    /\ Call
    /\ i \in 1..Len(guards[b])
    /\ ~guards[b][i].leaked
    /\ LET st == oidnSyncDevice(guards[b][i].dev) IN
       /\ mem' = st.mem
       /\ guards' = st.guards
       /\ queue' = st.queue
    /\ pc' = [at |-> "sn_func", b |-> b, i |-> i, path |-> "synchronise_now",
              refs0 |-> refs[guards[b][i].dev], val |-> <<>>]
    /\ UNCHANGED <<wrapper, refs, live, size, device, sync_lock, released,
                   panicking, hung, last>>

take_and_forget(g) == [g EXCEPT !.func = "None"]

\* must_sync.rs 57-61: func.take().expect(..)() runs the closure once
take_and_call(g) == [g EXCEPT !.func = "None", !.runs = @ + 1]

\* what the closure returns: () for a write, the Vec after set_len(size) for
\* a read; a Vec the device has not filled holds uninitialised memory
FuncResults(b, g) ==
    IF g.kind = "unit" THEN {<<>>}
    ELSE IF g.filled THEN {g.vec}
    ELSE Data(size[b])

\* synchronise_now, second statement: take the closure and call it
synchronise_now_func ==
    /\ pc.at = "sn_func"
    /\ LET b == pc.b
           g == guards[b][pc.i]
       IN  IF g.func = "Some"
           THEN /\ guards' = [guards EXCEPT ![b][pc.i] = take_and_call(g)]
                /\ \E v \in FuncResults(b, g) :
                      pc' = [pc EXCEPT !.at = "sn_drop", !.val = v]
                /\ UNCHANGED panicking
           ELSE /\ panicking' = TRUE
                /\ pc' = [pc EXCEPT !.at = "sn_drop"]
                /\ UNCHANGED guards
    /\ UNCHANGED <<wrapper, refs, queue, live, size, device, mem, sync_lock,
                   released, hung, last>>

\* synchronise_now returns: self goes out of scope and Drop::drop runs
synchronise_now_drop ==
    /\ pc.at = "sn_drop"
    /\ DropBody(pc.b, pc.i, pc.path, pc.refs0, pc.val)

\* ------------------------------------------------------------ Buffer drop
buffer_drop_without_sync(b) == NoSync

\* buffer.rs 194
buffer_drop_sync(b) == oidnSyncDevice(device[b])

\* Drop for Buffer, first statement
Buffer_drop(b) ==
    /\ Ready
    /\ Usable(b)
    /\ CanRetain
    /\ LET st == buffer_drop_sync(b) IN
       /\ mem' = st.mem
       /\ guards' = st.guards
       /\ queue' = st.queue
    /\ pc' = [Idle EXCEPT !.at = "buf_retain", !.b = b, !.path = "Buffer::drop",
                          !.refs0 = refs[device[b]]]
    /\ UNCHANGED <<wrapper, refs, live, size, device, sync_lock, released,
                   panicking, hung, last>>

\* Drop for Buffer, second statement (buffer.rs 196)
Buffer_drop_retain ==
    /\ pc.at = "buf_retain"
    /\ refs' = oidnRetainDevice(refs, device[pc.b])
    /\ pc' = [pc EXCEPT !.at = "buf_release"]
    /\ UNCHANGED <<wrapper, queue, live, size, device, mem, sync_lock, released,
                   guards, panicking, hung, last>>

\* Drop for Buffer, third statement (buffer.rs 197), then the fields go
Buffer_drop_release ==
    /\ pc.at = "buf_release"
    /\ LET b == pc.b IN
       /\ released'  = [released EXCEPT ![b] = @ + 1]
       /\ live'      = [live EXCEPT ![b] = FALSE]
       /\ size'      = [size EXCEPT ![b] = 0]
       /\ device'    = [device EXCEPT ![b] = NoDevice]
       /\ mem'       = [mem EXCEPT ![b] = <<>>]
       /\ sync_lock' = [sync_lock EXCEPT ![b] = SyncLock_default]
       /\ guards'    = [guards EXCEPT ![b] = <<>>]
       /\ last'      = Outcome("Buffer::drop", b, "ok", "none", FALSE, <<>>)
    /\ pc' = Idle
    /\ UNCHANGED <<wrapper, refs, queue, panicking, hung>>

\* The device works through its queue on its own, in issue order, while the
\* host carries on: an async operation takes effect at some moment between
\* its issue and the return of the next oidnSyncDevice on that device.
device_completes(d) ==
    /\ queue[d] # <<>>
    /\ LET st == Complete(<<Head(queue[d])>>, [mem |-> mem, guards |-> guards]) IN
       /\ mem' = st.mem
       /\ guards' = st.guards
    /\ queue' = [queue EXCEPT ![d] = Tail(@)]
    /\ UNCHANGED <<wrapper, refs, live, size, device, sync_lock, released, pc,
                   panicking, hung, last>>

\* the panic is caught (catch_unwind, or the thread ends and another one
\* carries on with the values that survived)
Caught ==
    /\ Ready
    /\ panicking
    /\ panicking' = FALSE
    /\ UNCHANGED <<wrapper, refs, queue, live, size, device, mem, sync_lock,
                   released, guards, pc, hung, last>>

\* every step the program can take when it makes its buffers, of the sizes
\* Ns and in the slots Bs, on the devices Cs (whose wrappers it may drop) and
\* calls the async entry points on the devices Ds
Step(Cs, Ds, Bs, Ns) ==
    \/ \E d \in Cs : Device_drop(d)
    \/ \E d \in Cs, b \in Bs, c \in Contents, null \in BOOLEAN :
          Len(c) \in Ns /\ create_buffer(d, b, c, null)
    \/ \E d \in Cs, b \in Bs, n \in RawBytes :
          /\ (n \div SizeOfF32) \in Ns
          /\ \E m \in Data(n \div SizeOfF32) : create_buffer_from_raw(d, b, n, m)
    \/ \E d \in Ds, b \in Bs : MustSync_new(d, b)
    \/ \E d \in Ds, b \in Bs, c \in Slices : write_buffer_async(d, b, c)
    \/ \E d \in Ds, b \in Bs : read_buffer_async(d, b)
    \/ \E b \in Bs, c \in Slices : Buffer_write(b, c)
    \/ \E b \in Bs, n \in SliceLens : Buffer_read_to_slice(b, n)
    \/ \E b \in Bs : Buffer_read(b)
    \/ \E b \in Bs : \E i \in 1..Len(guards[b]) : Leak(b, i)
    \/ \E b \in Bs : \E i \in 1..Len(guards[b]) : MustSync_drop(b, i)
    \/ MustSync_drop_fields
    \/ \E b \in Bs : \E i \in 1..Len(guards[b]) : synchronise_now(b, i)
    \/ synchronise_now_func
    \/ synchronise_now_drop
    \/ \E b \in Bs : Buffer_drop(b)
    \/ Buffer_drop_retain
    \/ Buffer_drop_release
    \/ Caught
    \/ \E d \in Devices : device_completes(d)

\* two devices, one buffer; the devices are interchangeable, so the buffer
\* is made on d1 and used through d1 and d2
Next == Step({"d1"}, Devices, {"b1"}, 1..MaxSize)
Spec == Init /\ [][Next]_vars

\* one device, two buffers of one element: the program has made only d1
InitShared ==
    /\ wrapper   = [d \in Devices |-> d = "d1"]
    /\ refs      = [d \in Devices |-> IF d = "d1" THEN 1 ELSE 0]
    /\ queue     = [d \in Devices |-> <<>>]
    /\ live      = [b \in Buffers |-> FALSE]
    /\ size      = [b \in Buffers |-> 0]
    /\ device    = [b \in Buffers |-> NoDevice]
    /\ mem       = [b \in Buffers |-> <<>>]
    /\ sync_lock = [b \in Buffers |-> SyncLock_default]
    /\ released  = [b \in Buffers |-> 0]
    /\ guards    = [b \in Buffers |-> <<>>]
    /\ pc        = Idle
    /\ panicking = FALSE
    /\ hung      = FALSE
    /\ last      = Outcome("Device::new", NoBuffer, "ok", "none", FALSE, <<>>)

NextShared == Step({"d1"}, {"d1"}, Buffers, {1})
SpecShared == InitShared /\ [][NextShared]_vars

\* ================================================================= claims
HasLeaked(b) == \E i \in 1..Len(guards[b]) : guards[b][i].leaked

\* the step is a call of write, read_to_slice or read on b (every call
\* records itself in last, which is looked at first)
SyncOp(b) ==
    /\ last'.b = b
    /\ pc.at = "idle" /\ pc'.at = "idle"
    /\ \/ last'.op = "write" /\ \E c \in Slices : Buffer_write(b, c)
       \/ last'.op = "read_to_slice" /\ \E n \in SliceLens : Buffer_read_to_slice(b, n)
       \/ last'.op = "read" /\ Buffer_read(b)

\* the step is a call through d that would make a guard on b
AsyncOp(d, b) ==
    /\ last'.b = b
    /\ pc.at = "idle" /\ pc'.at = "idle"
    /\ \/ last'.op = "write_buffer_async" /\ \E c \in Slices : write_buffer_async(d, b, c)
       \/ last'.op = "read_buffer_async" /\ read_buffer_async(d, b)
       \/ last'.op = "MustSync::new" /\ MustSync_new(d, b)

\* C1: while a guard made on b's lock has not been finalised, every
\* Buffer::write, Buffer::read and Buffer::read_to_slice on b panics in
\* check_valid: no device read/write is issued, the memory and the device
\* queues are untouched, and the call does not block.
C1_FailFast ==
    [][\A b \in Buffers :
          (Unfinalized(b) /\ SyncOp(b)) =>
              /\ last'.res = "panic"
              /\ last'.call = "none"
              /\ mem' = mem
              /\ queue' = queue
              /\ ~hung']_vars

C1_Witness ==
    /\ last.op \in {"write", "read", "read_to_slice"}
    /\ last.res = "panic"
    /\ Unfinalized(last.b)

\* C2: a lock never carries more than one unfinalised guard, and an attempt
\* to make a second one (write_buffer_async, read_buffer_async,
\* MustSync::new) on a lock that is held panics: no guard, no async device
\* operation, no wait on the lock.
C2_AtMostOneGuard ==
    /\ [](\A b \in Buffers : Len(guards[b]) <= 1)
    /\ [][\A d \in Devices, b \in Buffers :
             (sync_lock[b].writer /\ AsyncOp(d, b)) =>
                 /\ last'.res = "panic"
                 /\ ~last'.guard
                 /\ guards' = guards
                 /\ queue' = queue
                 /\ ~hung']_vars

C2_Witness ==
    /\ last.op \in {"write_buffer_async", "read_buffer_async", "MustSync::new"}
    /\ last.res = "panic"
    /\ Len(guards[last.b]) = 1

\* C3: the lock of a Buffer is never free while an async operation issued
\* on that Buffer is still outstanding on a device, i.e. both finalisation
\* paths have synchronised the operation before the lock is released.
C3_SyncBeforeIdle ==
    \A b \in Buffers : (live[b] /\ ~sync_lock[b].writer) => ~Pending(b)

\* C4: once a guard on b has been forgotten, the lock of b is held in every
\* later state of that Buffer, and every later write, read and
\* read_to_slice on b panics without a device call.
C4_LeakIsPermanent ==
    [][\A b \in Buffers :
          HasLeaked(b) =>
              /\ live'[b] =>
                    /\ sync_lock'[b].writer
                    /\ \E i \in 1..Len(guards'[b]) : guards'[b][i].leaked
              /\ SyncOp(b) =>
                    /\ last'.res = "panic"
                    /\ last'.call = "none"
                    /\ mem' = mem]_vars

C4_Witness ==
    /\ last.op = "read"
    /\ last.res = "panic"
    /\ HasLeaked(last.b)
    /\ sync_lock[last.b].writer
    /\ ~panicking

\* C5: the closure of a guard runs at most once; it has run exactly once
\* when synchronise_now returns and not at all when the guard was dropped;
\* whenever the fields of a guard are about to be dropped (either path) the
\* guard's device has been synchronised.
C5_FuncOnce ==
    /\ \A b \in Buffers : \A i \in 1..Len(guards[b]) : guards[b][i].runs <= 1
    /\ last.op = "synchronise_now" => last.runs = 1
    /\ last.op = "drop" => last.runs = 0
    /\ pc.at = "drop_fields" => queue[guards[pc.b][pc.i].dev] = <<>>

C5_Witness ==
    /\ last.op = "synchronise_now"
    /\ last.runs = 1
    /\ ~Unfinalized(last.b)

\* C6: the native buffer handle is released once, by Buffer's destructor,
\* and never while an operation on the Buffer is outstanding: the
\* destructor has synchronised the Buffer's device before it releases.
C6_ReleaseOnceAfterSync ==
    /\ [](\A b \in Buffers :
            /\ released[b] <= 1
            /\ live[b] => released[b] = 0
            /\ released[b] = 1 => ~Pending(b))
    /\ [](pc.at \in {"buf_retain", "buf_release"} => ~Pending(pc.b))
    /\ [](last.op = "Buffer::drop" => released[last.b] = 1 /\ ~live[last.b])
    /\ [][\A b \in Buffers :
             released'[b] > released[b] => (pc.at = "buf_release" /\ pc.b = b)]_vars

C6_Witness ==
    /\ pc.at = "buf_release"
    /\ HasLeaked(pc.b)
    /\ released[pc.b] = 0
    /\ ~Pending(pc.b)

\* C7: finalising a guard (Drop::drop alone, or synchronise_now followed by
\* Drop::drop) gives back the reference that its construction retained:
\* from the first statement of the finalisation to the last the retain
\* count of the guard's device goes down by one.
C7_GuardReleasesDevice ==
    [][MustSync_drop_fields =>
          refs'[guards[pc.b][pc.i].dev] = pc.refs0 - 1]_vars

\* C8: a successful create_buffer / create_buffer_from_raw raises the
\* retain count of its device by one and the destructor of the Buffer
\* lowers it by one.
C8_BufferRetainRelease ==
    [][/\ \A d \in Devices, b \in Buffers :
             ((\E c \in Contents : create_buffer(d, b, c, FALSE))
                \/ (\E n \in RawBytes : \E m \in Data(n \div SizeOfF32) :
                       create_buffer_from_raw(d, b, n, m)))
             => refs'[d] = refs[d] + 1
       /\ Buffer_drop_release => refs'[device[pc.b]] = pc.refs0 - 1]_vars

\* C9: the native device is not destroyed (retain count 0) while a Buffer
\* made from it exists, also after the Device wrapper has been dropped.
C9_DeviceOutlivesBuffers ==
    \A b \in Buffers : live[b] => refs[device[b]] > 0

C9_Witness ==
    \E b \in Buffers : live[b] /\ ~wrapper[device[b]] /\ refs[device[b]] > 0

\* the step is a call on b with a slice of the wrong length
MismatchOp(b) ==
    /\ last'.b = b
    /\ pc.at = "idle" /\ pc'.at = "idle"
    /\ \/ /\ last'.op = "write"
          /\ \E c \in Slices : Len(c) # size[b] /\ Buffer_write(b, c)
       \/ /\ last'.op = "read_to_slice"
          /\ \E n \in SliceLens : n # size[b] /\ Buffer_read_to_slice(b, n)
       \/ /\ last'.op = "write_buffer_async"
          /\ \E d \in Devices, c \in Slices :
                Len(c) # size[b] /\ write_buffer_async(d, b, c)

NoEffect(b) ==
    /\ last'.call = "none"
    /\ ~last'.guard
    /\ guards' = guards
    /\ queue' = queue
    /\ mem' = mem
    /\ sync_lock'[b].writer = sync_lock[b].writer

\* C10 as stated: a slice of the wrong length always yields None, with no
\* device call, no guard, and the lock and the contents unchanged.
C10_AlwaysNone ==
    [][\A b \in Buffers : MismatchOp(b) => (last'.res = "none" /\ NoEffect(b))]_vars

\* C10 amended: a slice of the wrong length yields None when the lock is
\* free and panics in check_valid when the lock is held; either way there
\* is no device call, no guard, and the lock (held or free) and the
\* contents are unchanged.
C10_NoneOrPanic ==
    [][\A b \in Buffers :
          MismatchOp(b) =>
              /\ last'.res = IF sync_lock[b].writer THEN "panic" ELSE "none"
              /\ NoEffect(b)]_vars

C10_Witness ==
    /\ last.op \in {"write", "read_to_slice", "write_buffer_async"}
    /\ last.res = "none"
    /\ live[last.b]
    /\ ~sync_lock[last.b].writer

\* the step is a successful-or-panicking read of the whole of b: read, or
\* read_to_slice into a slice of b's size
FullRead(b) ==
    /\ last'.b = b
    /\ pc.at = "idle" /\ pc'.at = "idle"
    /\ \/ last'.op = "read" /\ Buffer_read(b)
       \/ last'.op = "read_to_slice" /\ Buffer_read_to_slice(b, size[b])

\* C11: when the last call finalised (scope exit or synchronise_now) the
\* guard of a write_buffer_async(v) on b, a read or same-sized
\* read_to_slice of b that follows succeeds and returns exactly v.
C11_AsyncRoundTrip ==
    [][\A b \in Buffers :
          (/\ last.op \in {"drop", "synchronise_now"}
           /\ last.b = b
           /\ last.data # <<>>
           /\ FullRead(b))
          => (last'.res = "ok" /\ last'.val = last.data)]_vars

\* C12: when the last call was a successful write(v) on a Buffer with no
\* unfinalised guard, a read or same-sized read_to_slice that follows
\* returns exactly v.
C12_SyncRoundTrip ==
    [][\A b \in Buffers :
          (/\ last.op = "write"
           /\ last.res = "ok"
           /\ last.b = b
           /\ ~Unfinalized(b)
           /\ FullRead(b))
          => (last'.res = "ok" /\ last'.val = last.data)]_vars

\* C13: read_buffer_async issues oidnReadBufferAsync at once and returns a
\* guard and no data; the Vec reaches the caller only as the result of the
\* closure, and when the closure of a read guard runs the device has
\* completed the read into that Vec.
C13_ReadAfterSync ==
    /\ [][\A d \in Devices, b \in Buffers :
             (~sync_lock[b].writer /\ read_buffer_async(d, b)) =>
                 /\ last'.call = "oidnReadBufferAsync"
                 /\ last'.guard
                 /\ last'.val = <<>>
                 /\ Pending(b)']_vars
    /\ [][(synchronise_now_func /\ guards[pc.b][pc.i].kind = "read") =>
             /\ guards[pc.b][pc.i].filled
             /\ ~Pending(pc.b)
             /\ pc'.val = guards[pc.b][pc.i].vec]_vars

\* the step is the blocking synchronise of a finalisation of the guard on a:
\* the body of Drop::drop at scope exit, or the first statement of
\* synchronise_now
FinalizeSync(a) ==
    /\ pc.at = "idle"
    /\ pc'.b = a
    /\ \E i \in 1..Len(guards[a]) : MustSync_drop(a, i) \/ synchronise_now(a, i)

\* C14: with live guards on two Buffers a and b of one device, the
\* synchronise of a's finalisation completes every outstanding operation on
\* a and on b (a write guard's data is in the memory, a read guard's Vec is
\* filled), while b keeps its guard and its lock stays held; a lock with an
\* unfinalised guard is always held.
C14_DeviceWideSync ==
    /\ [](\A b \in Buffers : Unfinalized(b) => sync_lock[b].writer)
    /\ [][\A a, b \in Buffers :
             (a # b /\ Borrowed(b) /\ FinalizeSync(a)) =>
                 /\ ~Pending(a)'
                 /\ ~Pending(b)'
                 /\ queue'[device[b]] = <<>>
                 /\ guards[b][1].data # <<>> => mem'[b] = guards[b][1].data
                 /\ guards[b][1].kind = "read" =>
                       guards'[b][1].filled /\ guards'[b][1].vec = mem'[b]
                 /\ Len(guards'[b]) = 1
                 /\ sync_lock'[b].writer]_vars

\* a's guard has synchronised (its fields are not dropped yet) right after
\* an async operation was issued on b, whose guard is still there
C14_Witness ==
    /\ pc.at = "drop_fields"
    /\ last.op \in {"write_buffer_async", "read_buffer_async"}
    /\ last.res = "ok"
    /\ last.b # pc.b
    /\ Borrowed(last.b)
    /\ ~Pending(last.b)
    /\ sync_lock[last.b].writer

\* C15 as stated: a call of write, read_to_slice or write_buffer_async with
\* a slice of the wrong length returns None and never panics, whatever the
\* state of the lock.
C15_NeverPanics ==
    [][\A b \in Buffers :
          MismatchOp(b) => (last'.res = "none" /\ ~panicking')]_vars

\* C15 amended: such a call panics exactly when the lock is held (the
\* check of the lock comes before the comparison of the sizes); when the
\* lock is free, poisoned or not, it returns None and the thread does not
\* unwind.
C15_PanicsOnlyWhenHeld ==
    [][\A b \in Buffers :
          MismatchOp(b) =>
              /\ (last'.res = "panic") <=> sync_lock[b].writer
              /\ panicking' <=> sync_lock[b].writer
              /\ ~sync_lock[b].writer => last'.res = "none"]_vars

C15_Witness ==
    /\ last.op = "write_buffer_async"
    /\ last.res = "none"
    /\ ~panicking
    /\ live[last.b]
    /\ ~Unfinalized(last.b)

\* the last call finalised a guard on b (either path) and nothing has been
\* called since
JustFinalized(b) ==
    /\ last.op \in {"drop", "synchronise_now"}
    /\ last.b = b
    /\ pc.at = "idle"

\* C16: both finalisation paths begin with the same synchronise of the
\* guard's device, the rest of synchronise_now (the closure and the second
\* synchronise in Drop::drop) changes nothing the device can see, and both
\* end in the same step, the drop of the guard's fields.  Whichever path
\* led there, that step leaves the lock free and without guard, no
\* operation outstanding on the guard's device and that device's retain
\* count where it was when the finalisation began; the next
\* write/read/read_to_slice on the Buffer then passes the lock check and the
\* next async entry point obtains its guard (or None).
C16_PathsEquivalent ==
    /\ [][\A b \in Buffers :
             (pc.at = "idle" /\ pc'.b = b /\ FinalizeSync(b)) =>
                 LET st == oidnSyncDevice(guards[b][pc'.i].dev) IN
                 /\ mem' = st.mem /\ queue' = st.queue /\ guards' = st.guards
                 /\ UNCHANGED <<refs, sync_lock, live, released>>]_vars
    /\ [][(synchronise_now_func \/ synchronise_now_drop) =>
             UNCHANGED <<mem, queue, refs, sync_lock, live, released>>]_vars
    /\ [][MustSync_drop_fields =>
             /\ pc.path \in {"drop", "synchronise_now"}
             /\ ~sync_lock'[pc.b].writer
             /\ guards'[pc.b] = <<>>
             /\ queue'[guards[pc.b][pc.i].dev] = <<>>
             /\ refs'[guards[pc.b][pc.i].dev] = pc.refs0
             /\ last'.op = pc.path]_vars
    /\ [][\A b \in Buffers :
             JustFinalized(b) =>
                 /\ SyncOp(b) => last'.res \in {"ok", "none"}
                 /\ FullRead(b) => last'.res = "ok"
                 /\ \A d \in Devices :
                       AsyncOp(d, b) =>
                           /\ last'.res \in {"ok", "none"}
                           /\ last'.res = "ok" => last'.guard
                           /\ ~hung' /\ ~panicking']_vars

\* synchronise_now has returned the Vec of a read and the Buffer is free
C16_Witness ==
    /\ last.op = "synchronise_now"
    /\ last.val = mem[last.b]
    /\ last.val # <<>>
    /\ ~sync_lock[last.b].writer
    /\ guards[last.b] = <<>>
    /\ ~Pending(last.b)

\* the lock of b is poisoned and free
PoisonedIdle(b) == live[b] /\ sync_lock[b].poisoned /\ ~sync_lock[b].writer

\* C17: a lock that is poisoned but not held passes check_valid: the next
\* write/read/read_to_slice on its Buffer does not panic, the next async
\* entry point or MustSync::new gets its guard (or None for a wrong length)
\* without panicking or waiting, and the call leaves the lock unpoisoned.
C17_PoisonCleared ==
    /\ [](\A b \in Buffers : PoisonedIdle(b) => check_valid(sync_lock[b]))
    /\ [][\A b \in Buffers :
             PoisonedIdle(b) =>
                 /\ SyncOp(b) =>
                       /\ last'.res \in {"ok", "none"}
                       /\ ~panicking'
                       /\ sync_lock'[b] = SyncLock_default
                 /\ FullRead(b) => last'.res = "ok"
                 /\ \A d \in Devices :
                       AsyncOp(d, b) =>
                           /\ last'.res \in {"ok", "none"}
                           /\ last'.res = "ok" <=> last'.guard
                           /\ last'.guard <=> Len(guards'[b]) = 1
                           /\ last'.op = "MustSync::new" => last'.guard
                           /\ ~panicking' /\ ~hung'
                           /\ ~sync_lock'[b].poisoned]_vars

\* a guard was dropped while the thread was unwinding, the panic has been
\* caught, and the Buffer can be used and given a new guard
C17_Witness ==
    /\ last.op = "drop"
    /\ PoisonedIdle(last.b)
    /\ ~panicking
    /\ Usable(last.b)
    /\ wrapper[device[last.b]]
    /\ CanRetain

\* C18: write_buffer_async, read_buffer_async and MustSync::new finish in
\* one step with a guard, None or a panic: the thread never waits on the
\* lock (write() is only reached on a free lock), no device queue is
\* synchronised and the memory is untouched, and the operation a successful
\* write_buffer_async or read_buffer_async has issued is still outstanding
\* when the call returns.
C18_IssueNeverBlocks ==
    /\ [](~hung)
    /\ [](\A b \in Buffers :
            check_valid(sync_lock[b]) => lock_write(clear_poison(sync_lock[b])) = "Ok")
    /\ [][\A d \in Devices, b \in Buffers :
             AsyncOp(d, b) =>
                 /\ pc' = Idle
                 /\ ~hung'
                 /\ last'.res \in {"ok", "none", "panic"}
                 /\ last'.res = "ok" <=> last'.guard
                 /\ mem' = mem
                 /\ \A x \in Devices : Len(queue'[x]) >= Len(queue[x])
                 /\ (last'.res = "ok" /\ last'.op # "MustSync::new") =>
                       /\ Pending(b)'
                       /\ Len(queue'[device[b]]) = Len(queue[device[b]]) + 1]_vars

\* an async entry point has returned its guard while the operation it
\* issued is still outstanding on the device
C18_Witness ==
    /\ last.op \in {"write_buffer_async", "read_buffer_async"}
    /\ last.res = "ok"
    /\ last.guard
    /\ pc = Idle
    /\ ~hung
    /\ Borrowed(last.b)
    /\ Pending(last.b)

\* C19: a MustSync::new that fails its check of the lock (the lock is held)
\* leaves the retain counts of the devices and the lock as they were.
C19_FailedNewNoEffect ==
    [][\A d \in Devices, b \in Buffers :
          (/\ sync_lock[b].writer
           /\ last'.op = "MustSync::new"
           /\ last'.b = b
           /\ MustSync_new(d, b))
          => /\ last'.res = "panic"
             /\ refs' = refs
             /\ sync_lock'[b].writer = sync_lock[b].writer]_vars

\* the step is write, read or read_to_slice on b, after which the next
\* call can be an async entry point
SyncThenAsync(d, b) ==
    /\ last.op \in {"write", "read", "read_to_slice"}
    /\ last.res \in {"ok", "none"}
    /\ last.b = b
    /\ AsyncOp(d, b)

\* C20: write, read and read_to_slice never change whether the lock is
\* held and never make a guard; on a free lock they pass the check and
\* leave the lock free and unpoisoned; a Buffer without an unfinalised guard
\* always has a free lock, so every one of a sequence of such calls passes;
\* and an async entry point called next gets the lock (a guard, or None for
\* a wrong length) without panicking or waiting.
C20_SyncOpsKeepLockFree ==
    /\ [](\A b \in Buffers : (live[b] /\ ~Unfinalized(b)) => ~sync_lock[b].writer)
    /\ [][\A b \in Buffers :
             SyncOp(b) =>
                 /\ sync_lock'[b].writer = sync_lock[b].writer
                 /\ guards' = guards
                 /\ ~Unfinalized(b) =>
                       /\ last'.res \in {"ok", "none"}
                       /\ sync_lock'[b] = SyncLock_default
                       /\ ~panicking']_vars
    /\ [][\A d \in Devices, b \in Buffers :
             SyncThenAsync(d, b) =>
                 /\ last'.res \in {"ok", "none"}
                 /\ last'.res = "ok" =>
                       (last'.guard /\ sync_lock'[b].writer /\ Len(guards'[b]) = 1)
                 /\ ~panicking' /\ ~hung']_vars

\* a synchronous call has succeeded on a Buffer whose device was retained
\* by more than the Buffer (a guard was made and finalised, or another
\* Buffer dropped), and an async call can follow
C20_Witness ==
    /\ last.op \in {"write", "read", "read_to_slice"}
    /\ last.res = "ok"
    /\ ~Unfinalized(last.b)
    /\ sync_lock[last.b] = SyncLock_default
    /\ Usable(last.b)
    /\ wrapper[device[last.b]]
    /\ CanRetain
    /\ refs[device[last.b]] > 2

====
